---- MODULE Spec2Model ----
(***************************************************************************)
(* Model of cloudify_aws/eks/resources/cluster.py: the EKS cluster         *)
(* interface (describe / list / wait / kubeconfig issuance / delete) and   *)
(* the lifecycle operations prepare, poststart, delete and                 *)
(* refresh_kubeconfig built on it.                                         *)
(*                                                                         *)
(* Text is modelled as sequences of Unicode code points, bytes as          *)
(* sequences of integers 0..255.                                           *)
(***************************************************************************)
EXTENDS Integers, Sequences, FiniteSets, TLC

(***************************************************************************)
(* Bounds of the model.                                                    *)
(***************************************************************************)
MaxUrlLen == 3

(***************************************************************************)
(* Module constants of cluster.py.                                         *)
(***************************************************************************)
CLUSTER_NAME_HEADER == "x-k8s-aws-id"
\* 'k8s-aws-v1.'
TOKEN_PREFIX == <<107, 56, 115, 45, 97, 119, 115, 45, 118, 49, 46>>
TOKEN_EXPIRATION_MINS == 60

None == "None"

(***************************************************************************)
(* Text helpers.                                                           *)
(***************************************************************************)
EQ == 61        \* '='

\* str.encode('utf-8') for code points below 0x800
RECURSIVE utf8_encode(_)
utf8_encode(s) ==
    IF s = <<>> THEN <<>>
    ELSE LET c == Head(s) IN
         (IF c < 128 THEN <<c>>
          ELSE <<192 + (c \div 64), 128 + (c % 64)>>) \o utf8_encode(Tail(s))

\* bytes.decode('utf-8'), one- and two-byte sequences
RECURSIVE utf8_decode(_)
utf8_decode(b) ==
    IF b = <<>> THEN <<>>
    ELSE IF Head(b) < 128 THEN <<Head(b)>> \o utf8_decode(Tail(b))
    ELSE IF Len(b) >= 2
         THEN <<(Head(b) - 192) * 64 + (b[2] - 128)>>
              \o utf8_decode(Tail(Tail(b)))
         ELSE <<65533>>

\* the standard base64 alphabet: A-Z a-z 0-9 + /
b64_char(i) ==
    IF i < 26 THEN 65 + i
    ELSE IF i < 52 THEN 97 + (i - 26)
    ELSE IF i < 62 THEN 48 + (i - 52)
    ELSE IF i = 62 THEN 43 ELSE 47

\* base64.b64encode: 3 bytes -> 4 characters, '=' padding on the last group
RECURSIVE b64encode(_)
b64encode(b) ==
    IF b = <<>> THEN <<>>
    ELSE IF Len(b) = 1 THEN
        <<b64_char(b[1] \div 4), b64_char((b[1] % 4) * 16), EQ, EQ>>
    ELSE IF Len(b) = 2 THEN
        <<b64_char(b[1] \div 4),
          b64_char((b[1] % 4) * 16 + (b[2] \div 16)),
          b64_char((b[2] % 16) * 4), EQ>>
    ELSE
        <<b64_char(b[1] \div 4),
          b64_char((b[1] % 4) * 16 + (b[2] \div 16)),
          b64_char((b[2] % 16) * 4 + (b[3] \div 64)),
          b64_char(b[3] % 64)>>
        \o b64encode(SubSeq(b, 4, Len(b)))

\* the translation table of base64.urlsafe_b64encode: '+' -> '-', '/' -> '_'
urlsafe_translate(s) ==
    [i \in 1..Len(s) |->
        IF s[i] = 43 THEN 45 ELSE IF s[i] = 47 THEN 95 ELSE s[i]]

urlsafe_b64encode(b) == urlsafe_translate(b64encode(b))

\* str.rstrip('=')
RECURSIVE rstrip_eq(_)
rstrip_eq(s) ==
    IF s = <<>> THEN <<>>
    ELSE IF s[Len(s)] = EQ THEN rstrip_eq(SubSeq(s, 1, Len(s) - 1))
    ELSE s

\* a mutant of make_token: the padding is not stripped
make_token_keep_padding(url) ==
    TOKEN_PREFIX \o utf8_decode(urlsafe_b64encode(utf8_encode(url)))

\* get_kubeconf, lines 164-166: the bearer token of a presigned URL
make_token(url) ==
    TOKEN_PREFIX
        \o rstrip_eq(utf8_decode(urlsafe_b64encode(utf8_encode(url))))

(***************************************************************************)
(* The inverse direction, as a client of the token performs it:            *)
(* strip the prefix, re-pad to a multiple of four, urlsafe-decode.         *)
(***************************************************************************)
b64_index(c) ==
    IF c >= 65 /\ c <= 90 THEN c - 65
    ELSE IF c >= 97 /\ c <= 122 THEN c - 97 + 26
    ELSE IF c >= 48 /\ c <= 57 THEN c - 48 + 52
    ELSE IF c = 45 THEN 62
    ELSE IF c = 95 THEN 63
    ELSE -1

RECURSIVE urlsafe_b64decode(_)
urlsafe_b64decode(s) ==
    IF Len(s) < 4 THEN <<>>
    ELSE LET a == b64_index(s[1])
             b == b64_index(s[2])
             c == b64_index(s[3])
             d == b64_index(s[4])
             rest == urlsafe_b64decode(SubSeq(s, 5, Len(s)))
         IN IF s[3] = EQ THEN <<a * 4 + (b \div 16)>>
            ELSE IF s[4] = EQ
                 THEN <<a * 4 + (b \div 16), (b % 16) * 16 + (c \div 4)>>
            ELSE <<a * 4 + (b \div 16), (b % 16) * 16 + (c \div 4),
                   (c % 4) * 64 + d>> \o rest

repad(s) ==
    IF Len(s) % 4 = 0 THEN s
    ELSE s \o [i \in 1..(4 - (Len(s) % 4)) |-> EQ]

strip_prefix(t) == SubSeq(t, Len(TOKEN_PREFIX) + 1, Len(t))

has_prefix(t) ==
    /\ Len(t) >= Len(TOKEN_PREFIX)
    /\ SubSeq(t, 1, Len(TOKEN_PREFIX)) = TOKEN_PREFIX

decode_token(t) == utf8_decode(urlsafe_b64decode(repad(strip_prefix(t))))

(***************************************************************************)
(* Presigned URLs: '?', '~', '=' and a two-byte character, so that both    *)
(* url-safe characters and every padding length occur.                     *)
(***************************************************************************)
UrlChars == {63, 126, 61, 233}

RECURSIVE SeqsUpTo(_, _)
SeqsUpTo(S, n) ==
    IF n = 0 THEN {<<>>}
    ELSE LET shorter == SeqsUpTo(S, n - 1)
         IN shorter \cup {Append(s, c) : s \in shorter, c \in S}

Urls == SeqsUpTo(UrlChars, MaxUrlLen)

(***************************************************************************)
(* Python values.  Leaves of the kubeconfig document carry their Python    *)
(* type, so that text_type and json.dumps can be modelled by what they do. *)
(***************************************************************************)
Str(s) == [t |-> "str", v |-> s]
Bytes(b) == [t |-> "bytes", v |-> b]

\* cloudify_aws.common._compat.text_type (str): a str is returned as it is,
\* bytes are rendered as their repr b'...'
text_type(x) ==
    IF x.t = "str" THEN x
    ELSE Str(<<98, 39>> \o x.v \o <<39>>)

\* truth value of a name: None and '' are falsy
truthy(x) == x # None /\ x # ""

EmptyDict == [k \in {} |-> None]
NoneValue == [py |-> "None"]
Return(v) == [t |-> "return", v |-> v]
Raise(e) == [t |-> "raise", e |-> e]

(***************************************************************************)
(* The remote cluster and the responses of the EKS client.                 *)
(***************************************************************************)
ClusterStatus == {"CREATING", "ACTIVE", "UPDATING", "DELETING", "FAILED"}
NotFound == "ResourceNotFoundException"
PollResults == ClusterStatus \cup {NotFound}

\* the clusters of the model: 'https://A' with the CA data 'Zm9v' and
\* 'https://B' with 'YmFy'
Clusters == {[endpoint |-> <<104, 116, 116, 112, 115, 58, 47, 47, 65>>,
              data |-> <<90, 109, 57, 118>>],
             [endpoint |-> <<104, 116, 116, 112, 115, 58, 47, 47, 66>>,
              data |-> <<89, 109, 70, 121>>]}

descriptor(cl, status) ==
    [status |-> status,
     endpoint |-> Str(cl.endpoint),
     certificateAuthority |-> [data |-> Str(cl.data)],
     arn |-> "arn:aws:eks:cluster"]

ClientErrorResponse == [err |-> "ClientError"]
DescribeResponses(cl) ==
    {ClientErrorResponse}
        \cup {[cluster |-> descriptor(cl, s)] : s \in ClusterStatus}
ListResponses ==
    {ClientErrorResponse, [clusters |-> <<>>], [clusters |-> <<"demo">>],
     [clusters |-> <<"demo", "prod">>]}

\* presigned URLs the signer hands out: '?=' and '~?='
PresignedUrls == {<<63, 61>>, <<126, 63, 61>>}

(***************************************************************************)
(* EKSCluster: describe, properties, status, list (lines 80-118).          *)
(***************************************************************************)
\* a mutant of describe: the provider error is not caught
describe_propagating(resp) ==
    IF "err" \in DOMAIN resp THEN Raise(resp.err)
    ELSE Return(resp.cluster)

\* EKSCluster.describe
describe(resp) ==
    IF "err" \in DOMAIN resp
    THEN (IF resp.err = "ClientError" THEN Return(EmptyDict)
          ELSE Raise(resp.err))
    ELSE Return(resp.cluster)

\* EKSCluster.properties
properties(resp) ==
    LET r == describe(resp) IN
    IF r.t = "raise"
    THEN (IF r.e = "ClientError" THEN Return(NoneValue) ELSE r)
    ELSE IF r.v = EmptyDict THEN Return(NoneValue) ELSE r

\* EKSCluster.status
status(resp) ==
    LET props == properties(resp) IN
    IF props.t = "raise" THEN props
    ELSE IF props.v = NoneValue THEN Return(NoneValue)
    ELSE Return([status |-> props.v.status])

\* AWSResourceBase.make_client_call: hands the client's result or error on
make_client_call(resp) ==
    IF "err" \in DOMAIN resp THEN Raise(resp.err) ELSE Return(resp)

\* EKSCluster.list
list(resp) ==
    LET r == make_client_call(resp) IN
    IF r.t = "raise"
    THEN (IF r.e = "ClientError" THEN Return(<<>>) ELSE r)
    ELSE Return(r.v.clusters)

(***************************************************************************)
(* The waiter configuration of wait_for_cluster (lines 143-146).           *)
(***************************************************************************)
\* a mutant of WaiterConfig: one attempt more
WaiterConfig_41 == [Delay |-> 30, MaxAttempts |-> 41]

WaiterConfig == [Delay |-> 30, MaxAttempts |-> 40]

\* the acceptor of the waiters 'cluster_active' and 'cluster_deleted'
is_target(waiter, result) ==
    \/ waiter = "cluster_active" /\ result = "ACTIVE"
    \/ waiter = "cluster_deleted" /\ result = NotFound

(***************************************************************************)
(* The presign request and the two event handlers (lines 50-68).           *)
(***************************************************************************)
PROVIDE_CLIENT_PARAMS == "provide-client-params.sts.GetCallerIdentity"
BEFORE_SIGN == "before-sign.sts.GetCallerIdentity"

NoRequest ==
    [params |-> EmptyDict, context |-> EmptyDict, headers |-> EmptyDict,
     ExpiresIn |-> 0, stage |-> "none",
     signed_params |-> EmptyDict, signed_headers |-> EmptyDict]

\* dict helpers
dict_set(d, k, v) == [x \in DOMAIN d \cup {k} |-> IF x = k THEN v ELSE d[x]]
dict_pop(d, k) == [x \in DOMAIN d \ {k} |-> d[x]]

\* _retrieve_cluster_name(params, context)
_retrieve_cluster_name(req) ==
    IF "ClusterName" \in DOMAIN req.params
    THEN [req EXCEPT
            !.context = dict_set(req.context, "eks_cluster",
                                 req.params["ClusterName"]),
            !.params = dict_pop(req.params, "ClusterName")]
    ELSE req

\* _inject_cluster_name_header(request)
_inject_cluster_name_header(req) ==
    IF "eks_cluster" \in DOMAIN req.context
    THEN [req EXCEPT
            !.headers = dict_set(req.headers, CLUSTER_NAME_HEADER,
                                 req.context["eks_cluster"])]
    ELSE req

\* a mutant of _register_cluster_name_handlers: the events are exchanged
_register_cluster_name_handlers_swapped ==
    {<<BEFORE_SIGN, "_retrieve_cluster_name">>,
     <<PROVIDE_CLIENT_PARAMS, "_inject_cluster_name_header">>}

\* _register_cluster_name_handlers: the registrations on the sts client
_register_cluster_name_handlers ==
    {<<PROVIDE_CLIENT_PARAMS, "_retrieve_cluster_name">>,
     <<BEFORE_SIGN, "_inject_cluster_name_header">>}

\* the event bus of the sts client: run the handlers registered for event
emit(handlers, event, req) ==
    LET r1 == IF <<event, "_retrieve_cluster_name">> \in handlers
              THEN _retrieve_cluster_name(req) ELSE req
    IN IF <<event, "_inject_cluster_name_header">> \in handlers
       THEN _inject_cluster_name_header(r1) ELSE r1

(***************************************************************************)
(* The kubeconfig document (lines 168-200) and its serialization check.    *)
(***************************************************************************)
NoDoc == [kind |-> "none"]

\* a mutant of cluster_config: the CA data is base64-encoded once more
cluster_config_reencoded(cluster_ep, cluster_cert, token) ==
    [apiVersion |-> "v1",
     kind |-> "Config",
     clusters |-> <<[cluster |->
                        [server |-> text_type(cluster_ep),
                         certificate_authority_data |->
                             Str(urlsafe_b64encode(cluster_cert.v))],
                     name |-> "kubernetes"]>>,
     contexts |-> <<[context |-> [cluster |-> "kubernetes", user |-> "aws"],
                     name |-> "aws"]>>,
     current_context |-> "aws",
     preferences |-> EmptyDict,
     users |-> <<[name |-> "aws", user |-> [token |-> token]]>>]

\* the cluster config hash built by get_kubeconf
cluster_config(cluster_ep, cluster_cert, token) ==
    [apiVersion |-> "v1",
     kind |-> "Config",
     clusters |-> <<[cluster |->
                        [server |-> text_type(cluster_ep),
                         certificate_authority_data |->
                             text_type(cluster_cert)],
                     name |-> "kubernetes"]>>,
     contexts |-> <<[context |-> [cluster |-> "kubernetes", user |-> "aws"],
                     name |-> "aws"]>>,
     current_context |-> "aws",
     preferences |-> EmptyDict,
     users |-> <<[name |-> "aws", user |-> [token |-> token]]>>]

\* json.dumps(kubeconf): TypeError when a leaf is not a JSON type
json_dumps_ok(doc) ==
    /\ \A i \in 1..Len(doc.clusters) :
          /\ doc.clusters[i].cluster.server.t = "str"
          /\ doc.clusters[i].cluster.certificate_authority_data.t = "str"
    /\ \A i \in 1..Len(doc.users) : doc.users[i].user.token.t = "str"

(***************************************************************************)
(* Name resolution of the lifecycle operations.                            *)
(***************************************************************************)
\* prepare / poststart: params['name'] after
\*     name = params.get('name') or ctx.node.properties.get('resource_id')
\*     if name: params['name'] = name
poststart_params_name(rc_name, resource_id) ==
    LET name == IF truthy(rc_name) THEN rc_name ELSE resource_id
    IN IF truthy(name) THEN name ELSE rc_name

\* delete: params.get(CLUSTER_NAME) of resource_config.copy()
delete_params_name(rc_name, resource_id) == rc_name

VARIABLES
    \* the token derivation on its own
    t_pc,        \* position of the token derivation
    t_url,       \* the presigned URL
    t_encoded,   \* base64.urlsafe_b64encode(url.encode('utf-8'))
    t_token,     \* TOKEN_PREFIX + encoded.decode('utf-8').rstrip('=')
    \* the node and the remote cluster
    rc_name,     \* resource_config.get('name'), None when absent
    resource_id, \* ctx.node.properties.get('resource_id')
    store_kube_config_in_runtime,
    cluster,     \* endpoint and CA data of the remote cluster
    \* ctx.instance.runtime_properties
    runtime_properties,
    \* the running operation
    op,          \* its name
    pc,          \* its position
    raised,      \* the exception that ended it, None when none
    params_name, \* params.get(CLUSTER_NAME)
    iface_class, \* the class of the iface argument
    writes,      \* what the operation has written so far
    warnings,    \* what the operation has logged with logger.warn
    node_type,   \* poststart's node_type
    labels,      \* the labels handed to utils.add_new_labels
    w,           \* the waiter
    handlers,    \* the handlers registered on the sts client
    req,         \* the GetCallerIdentity presign request
    describe_resp, \* the last response of describe_cluster / list_clusters
    url,         \* the presigned URL
    kubeconf,    \* the document returned by get_kubeconf
    ret,         \* the value returned by describe / properties / status / list
    active_wait_name,  \* the name poststart waited on
    delete_call_name,  \* the name handed to delete_cluster
    deleted_wait_name  \* the name delete waited on

tvars == <<t_pc, t_url, t_encoded, t_token>>
nodevars == <<rc_name, resource_id, store_kube_config_in_runtime, cluster>>
waitvars == <<w>>
kubevars == <<handlers, req, url, kubeconf>>
opvars == <<op, pc, raised, params_name, iface_class, writes, warnings,
            node_type, labels, describe_resp, ret, delete_call_name,
            deleted_wait_name>>
mvars == <<nodevars, runtime_properties, opvars, waitvars, kubevars,
           active_wait_name>>
vars == <<tvars, mvars>>

NoWaiter ==
    [name |-> None, waiter |-> "none", attempts |-> 0, elapsed |-> 0,
     state |-> "none", hits |-> 0]
NoResponse == [none |-> TRUE]
\* poststart has not waited yet
Unset == "unset"

\* the variables of an operation before it starts
OpIdle ==
    /\ op = "none"
    /\ pc = "idle"
    /\ raised = None
    /\ params_name = None
    /\ iface_class = "none"
    /\ writes = {}
    /\ warnings = {}
    /\ node_type = None
    /\ labels = EmptyDict
    /\ w = NoWaiter
    /\ handlers = {}
    /\ req = NoRequest
    /\ describe_resp = NoResponse
    /\ url = <<>>
    /\ kubeconf = NoDoc
    /\ ret = Return(NoneValue)
    /\ delete_call_name = None
    /\ deleted_wait_name = None

TokenIdle ==
    /\ t_pc = "none"
    /\ t_url = <<>>
    /\ t_encoded = <<>>
    /\ t_token = <<>>

NodeConfig ==
    /\ rc_name \in {None, "demo"}
    /\ resource_id \in {None, "demo", "prod"}
    /\ store_kube_config_in_runtime \in BOOLEAN
    /\ cluster \in Clusters

NoRuntimeProperties ==
    [kubeconf |-> NoDoc, resource |-> NoneValue, resource_config |-> NoneValue]

(***************************************************************************)
(* The token derivation as a function of the URL.                          *)
(***************************************************************************)
TokenInit ==
    /\ t_pc = "url"
    /\ t_url \in Urls
    /\ t_encoded = <<>>
    /\ t_token = <<>>
    /\ rc_name = None
    /\ resource_id = None
    /\ store_kube_config_in_runtime = FALSE
    /\ cluster \in {cl \in Clusters : cl.data = <<90, 109, 57, 118>>}
    /\ runtime_properties = NoRuntimeProperties
    /\ active_wait_name = Unset
    /\ OpIdle

\* line 164
EncodeUrl ==
    /\ t_pc = "url"
    /\ t_encoded' = urlsafe_b64encode(utf8_encode(t_url))
    /\ t_pc' = "encoded"
    /\ UNCHANGED <<t_url, t_token, mvars>>

\* lines 165-166
IssueToken ==
    /\ t_pc = "encoded"
    /\ t_token' = make_token(t_url)
    /\ t_pc' = "token"
    /\ UNCHANGED <<t_url, t_encoded, mvars>>

TokenNext == EncodeUrl \/ IssueToken

SpecToken == TokenInit /\ [][TokenNext]_vars

(***************************************************************************)
(* The operations.                                                         *)
(***************************************************************************)
Init ==
    /\ TokenIdle
    /\ NodeConfig
    /\ runtime_properties = NoRuntimeProperties
    /\ active_wait_name = Unset
    /\ OpIdle

\* what every operation leaves alone
Frame == UNCHANGED <<tvars, nodevars>>

\* wait_for_cluster(params, status): the waiter starts
start_waiter(name, waiter) ==
    w' = [name |-> name, waiter |-> waiter, attempts |-> 0, elapsed |-> 0,
          state |-> "polling", hits |-> 0]

\* wait_for_cluster returns to its caller; the waiter is gone
waiter_returned ==
    w' = [NoWaiter EXCEPT !.name = w.name, !.waiter = w.waiter,
                          !.state = "returned"]

\* one poll of the waiter
waiter_poll ==
    /\ pc = "wait"
    /\ w.state = "polling"
    /\ \E result \in PollResults :
        LET n == w.attempts + 1 IN
        w' = [w EXCEPT
                !.attempts = n,
                !.hits = IF is_target(w.waiter, result) THEN @ + 1 ELSE @,
                !.state = IF is_target(w.waiter, result) THEN "success"
                          ELSE IF n >= WaiterConfig.MaxAttempts
                               THEN "timeout"
                          ELSE "sleeping"]
    /\ UNCHANGED <<runtime_properties, opvars, kubevars, active_wait_name>>
    /\ Frame

\* the delay between two polls
waiter_sleep ==
    /\ pc = "wait"
    /\ w.state = "sleeping"
    /\ w' = [w EXCEPT !.elapsed = @ + WaiterConfig.Delay,
                      !.state = "polling"]
    /\ UNCHANGED <<runtime_properties, opvars, kubevars, active_wait_name>>
    /\ Frame

\* a mutant of wait_timeout: the waiter's error is swallowed
wait_timeout_swallowed ==
    /\ pc = "wait"
    /\ w.state = "timeout"
    /\ pc' = IF op = "poststart" THEN "enrich" ELSE "done"
    /\ UNCHANGED <<runtime_properties, op, raised, params_name, iface_class,
                   writes, warnings, node_type, labels, describe_resp, ret,
                   delete_call_name, deleted_wait_name, waitvars, kubevars,
                   active_wait_name>>
    /\ Frame

\* the waiter raises: the error leaves poststart / delete
wait_timeout ==
    /\ pc = "wait"
    /\ w.state = "timeout"
    /\ raised' = "WaiterError"
    /\ pc' = "failed"
    /\ UNCHANGED <<runtime_properties, op, params_name, iface_class, writes,
                   warnings, node_type, labels, describe_resp, ret,
                   delete_call_name, deleted_wait_name, waitvars, kubevars,
                   active_wait_name>>
    /\ Frame

\* prepare
prepare ==
    /\ pc = "idle"
    /\ op' = "prepare"
    /\ params_name' = poststart_params_name(rc_name, resource_id)
    /\ runtime_properties' =
          [runtime_properties EXCEPT !.resource_config = [name |-> rc_name]]
    /\ writes' = {"resource_config"}
    /\ pc' = "done"
    /\ UNCHANGED <<raised, iface_class, warnings, node_type, labels,
                   describe_resp, ret, delete_call_name, deleted_wait_name,
                   waitvars, kubevars, active_wait_name>>
    /\ Frame

\* poststart, lines 265-271: the parameters, then the wait for the cluster
poststart_begin ==
    /\ pc = "idle"
    /\ op' = "poststart"
    /\ \E c \in {"EKSCluster", "RawTokenIface"} : iface_class' = c
    /\ params_name' = poststart_params_name(rc_name, resource_id)
    /\ start_waiter(poststart_params_name(rc_name, resource_id),
                    "cluster_active")
    /\ active_wait_name' = poststart_params_name(rc_name, resource_id)
    /\ pc' = "wait"
    /\ UNCHANGED <<runtime_properties, raised, writes, warnings, node_type,
                   labels, describe_resp, ret, delete_call_name,
                   deleted_wait_name, kubevars>>
    /\ Frame

\* poststart, lines 273-279: the wait has returned
poststart_waited ==
    /\ pc = "wait"
    /\ op = "poststart"
    /\ w.state = "success"
    /\ waiter_returned
    /\ pc' = IF store_kube_config_in_runtime THEN "kc_describe" ELSE "enrich"
    /\ UNCHANGED <<runtime_properties, op, raised, params_name, iface_class,
                   writes, warnings, node_type, labels, describe_resp, ret,
                   delete_call_name, deleted_wait_name, kubevars,
                   active_wait_name>>
    /\ Frame

(***************************************************************************)
(* get_kubeconf (lines 149-200).                                           *)
(***************************************************************************)
\* lines 153-156: describe_cluster, called on the client directly
get_kubeconf_describe ==
    /\ pc = "kc_describe"
    /\ \E resp \in DescribeResponses(cluster) :
        /\ describe_resp' = resp
        /\ IF "err" \in DOMAIN resp
           THEN raised' = resp.err /\ pc' = "failed"
           ELSE raised' = raised /\ pc' = "kc_presign"
    /\ UNCHANGED <<runtime_properties, op, params_name, iface_class, writes,
                   warnings, node_type, labels, ret, delete_call_name,
                   deleted_wait_name, waitvars, kubevars, active_wait_name>>
    /\ Frame

\* lines 157-163: the handlers are registered, generate_presigned_url builds
\* the request and emits provide-client-params before it serializes it
get_kubeconf_presign ==
    /\ pc = "kc_presign"
    /\ handlers' = _register_cluster_name_handlers
    /\ req' = [emit(_register_cluster_name_handlers, PROVIDE_CLIENT_PARAMS,
                    [NoRequest EXCEPT
                        !.params = dict_set(EmptyDict, "ClusterName",
                                            params_name),
                        !.ExpiresIn = TOKEN_EXPIRATION_MINS])
               EXCEPT !.stage = "serialized"]
    /\ pc' = "kc_sign"
    /\ UNCHANGED <<runtime_properties, op, raised, params_name, iface_class,
                   writes, warnings, node_type, labels, describe_resp, ret,
                   delete_call_name, deleted_wait_name, waitvars, url,
                   kubeconf, active_wait_name>>
    /\ Frame

\* the signer emits before-sign, signs the request as it then is and
\* returns the URL
get_kubeconf_sign ==
    /\ pc = "kc_sign"
    /\ LET r == emit(handlers, BEFORE_SIGN, req) IN
       req' = [r EXCEPT !.stage = "signed",
                        !.signed_params = r.params,
                        !.signed_headers = r.headers]
    /\ \E u \in PresignedUrls : url' = u
    /\ pc' = "kc_build"
    /\ UNCHANGED <<runtime_properties, op, raised, params_name, iface_class,
                   writes, warnings, node_type, labels, describe_resp, ret,
                   delete_call_name, deleted_wait_name, waitvars, handlers,
                   kubeconf, active_wait_name>>
    /\ Frame

\* the token of an iface: EKSCluster decodes the base64 bytes to text
\* (lines 164-166); RawTokenIface stands for an iface that leaves them bytes
iface_token(class, u) ==
    IF class = "EKSCluster" THEN Str(make_token(u))
    ELSE Bytes(make_token(u))

\* lines 164-200: the token and the document
get_kubeconf_build ==
    /\ pc = "kc_build"
    /\ kubeconf' = cluster_config(
                       describe_resp.cluster.endpoint,
                       describe_resp.cluster.certificateAuthority.data,
                       iface_token(iface_class, url))
    /\ pc' = "store"
    /\ UNCHANGED <<runtime_properties, op, raised, params_name, iface_class,
                   writes, warnings, node_type, labels, describe_resp, ret,
                   delete_call_name, deleted_wait_name, waitvars, handlers,
                   req, url, active_wait_name>>
    /\ Frame

(***************************************************************************)
(* _store_kubeconfig_in_runtime_properties, lines 224-229.                 *)
(***************************************************************************)
\* a mutant of store_kubeconfig: the document is written before the check
store_kubeconfig_write_first ==
    /\ pc = "store"
    /\ runtime_properties' =
          [runtime_properties EXCEPT !.kubeconf = kubeconf]
    /\ writes' = writes \cup {"kubeconf"}
    /\ IF json_dumps_ok(kubeconf)
       THEN /\ raised' = raised
            /\ pc' = IF op = "poststart" THEN "enrich" ELSE "done"
       ELSE /\ raised' = "NonRecoverableError"
            /\ pc' = "failed"
    /\ UNCHANGED <<op, params_name, iface_class, warnings, node_type, labels,
                   describe_resp, ret, delete_call_name, deleted_wait_name,
                   waitvars, kubevars, active_wait_name>>
    /\ Frame

store_kubeconfig ==
    /\ pc = "store"
    /\ IF json_dumps_ok(kubeconf)
       THEN /\ runtime_properties' =
                  [runtime_properties EXCEPT !.kubeconf = kubeconf]
            /\ writes' = writes \cup {"kubeconf"}
            /\ raised' = raised
            /\ pc' = IF op = "poststart" THEN "enrich" ELSE "done"
       ELSE /\ raised' = "NonRecoverableError"
            /\ pc' = "failed"
            /\ UNCHANGED <<runtime_properties, writes>>
    /\ UNCHANGED <<op, params_name, iface_class, warnings, node_type, labels,
                   describe_resp, ret, delete_call_name, deleted_wait_name,
                   waitvars, kubevars, active_wait_name>>
    /\ Frame

(***************************************************************************)
(* poststart, lines 280-323.                                               *)
(***************************************************************************)
\* lines 280-295: region, arn, fargate profiles, node groups, zones; each of
\* the calls may raise
poststart_enrich ==
    /\ pc = "enrich"
    /\ \E err \in {None, "ClientError", "TypeError"},
          fargate \in BOOLEAN, node_group \in BOOLEAN :
        IF err # None
        THEN raised' = err /\ pc' = "failed" /\ node_type' = node_type
        ELSE /\ node_type' = IF fargate /\ node_group THEN "fargate-nodegroup"
                             ELSE IF fargate THEN "fargate"
                             ELSE "nodegroup"
             /\ raised' = raised
             /\ pc' = "labels"
    /\ UNCHANGED <<runtime_properties, op, params_name, iface_class, writes,
                   warnings, labels, describe_resp, ret, delete_call_name,
                   deleted_wait_name, waitvars, kubevars, active_wait_name>>
    /\ Frame

\* lines 296-309: utils.add_new_labels inside try / except CloudifyClientError
poststart_labels ==
    /\ pc = "labels"
    /\ \E outcome \in {"ok", "CloudifyClientError"} :
        IF outcome = "ok"
        THEN /\ labels' = [csys_env_type |-> "eks",
                           eks_node_type |-> node_type]
             /\ writes' = writes \cup {"labels"}
             /\ warnings' = warnings
        ELSE /\ warnings' = warnings \cup {"Skipping assignment of labels"}
             /\ UNCHANGED <<labels, writes>>
    /\ pc' = "site"
    /\ UNCHANGED <<runtime_properties, op, raised, params_name, iface_class,
                   node_type, describe_resp, ret, delete_call_name,
                   deleted_wait_name, waitvars, kubevars, active_wait_name>>
    /\ Frame

\* lines 311-321: utils.assign_site inside try / except ClientError, where
\* ClientError is botocore's
poststart_site ==
    /\ pc = "site"
    /\ \E location \in BOOLEAN,
          outcome \in {"ok", "ClientError", "CloudifyClientError"} :
        IF ~location \/ outcome = "ok"
        THEN /\ writes' = IF location THEN writes \cup {"site"} ELSE writes
             /\ UNCHANGED <<warnings, raised>>
             /\ pc' = "resource"
        ELSE IF outcome = "ClientError"
        THEN /\ warnings' = warnings \cup {"Skipping assignment of site"}
             /\ UNCHANGED <<writes, raised>>
             /\ pc' = "resource"
        ELSE /\ raised' = outcome
             /\ pc' = "failed"
             /\ UNCHANGED <<writes, warnings>>
    /\ UNCHANGED <<runtime_properties, op, params_name, iface_class,
                   node_type, labels, describe_resp, ret, delete_call_name,
                   deleted_wait_name, waitvars, kubevars, active_wait_name>>
    /\ Frame

\* lines 322-323: the snapshot of iface.properties
poststart_resource ==
    /\ pc = "resource"
    /\ \E s \in {"ACTIVE", "UPDATING"} :
        runtime_properties' =
            [runtime_properties EXCEPT !.resource = descriptor(cluster, s)]
    /\ writes' = writes \cup {"resource"}
    /\ pc' = "done"
    /\ UNCHANGED <<op, raised, params_name, iface_class, warnings, node_type,
                   labels, describe_resp, ret, delete_call_name,
                   deleted_wait_name, waitvars, kubevars, active_wait_name>>
    /\ Frame

(***************************************************************************)
(* delete, lines 326-334, and EKSCluster.delete, lines 202-210.            *)
(***************************************************************************)
\* lines 330-331 and 206-208: delete_cluster is called
delete_begin ==
    /\ pc = "idle"
    /\ op' = "delete"
    /\ params_name' = delete_params_name(rc_name, resource_id)
    /\ delete_call_name' = delete_params_name(rc_name, resource_id)
    /\ pc' = "delete_call"
    /\ UNCHANGED <<runtime_properties, raised, iface_class, writes, warnings,
                   node_type, labels, describe_resp, ret, deleted_wait_name,
                   waitvars, kubevars, active_wait_name>>
    /\ Frame

\* delete_cluster returns or raises; lines 332-334: the wait for the deletion
delete_call_returns ==
    /\ pc = "delete_call"
    /\ \E outcome \in {"ok", "ClientError"} :
        IF outcome = "ok"
        THEN /\ start_waiter(params_name, "cluster_deleted")
             /\ deleted_wait_name' = params_name
             /\ raised' = raised
             /\ pc' = "wait"
        ELSE /\ raised' = outcome
             /\ pc' = "failed"
             /\ UNCHANGED <<w, deleted_wait_name>>
    /\ UNCHANGED <<runtime_properties, op, params_name, iface_class, writes,
                   warnings, node_type, labels, describe_resp, ret,
                   delete_call_name, kubevars, active_wait_name>>
    /\ Frame

\* the wait for the deletion has returned
delete_waited ==
    /\ pc = "wait"
    /\ op = "delete"
    /\ w.state = "success"
    /\ waiter_returned
    /\ pc' = "done"
    /\ UNCHANGED <<runtime_properties, op, raised, params_name, iface_class,
                   writes, warnings, node_type, labels, describe_resp, ret,
                   delete_call_name, deleted_wait_name, kubevars,
                   active_wait_name>>
    /\ Frame

(***************************************************************************)
(* refresh_kubeconfig, lines 337-360.                                      *)
(***************************************************************************)
refresh_kubeconfig ==
    /\ pc = "idle"
    /\ op' = "refresh_kubeconfig"
    /\ \E is_cluster \in BOOLEAN :
        IF is_cluster
        THEN /\ params_name' =
                   IF runtime_properties.resource_config = NoneValue
                   THEN None
                   ELSE runtime_properties.resource_config.name
             /\ iface_class' = "EKSCluster"
             /\ pc' = IF store_kube_config_in_runtime THEN "kc_describe"
                      ELSE "done"
        ELSE /\ pc' = "done"
             /\ UNCHANGED <<params_name, iface_class>>
    /\ UNCHANGED <<runtime_properties, raised, writes, warnings, node_type,
                   labels, describe_resp, ret, delete_call_name,
                   deleted_wait_name, waitvars, kubevars, active_wait_name>>
    /\ Frame

(***************************************************************************)
(* The discovery calls on the interface.                                   *)
(***************************************************************************)
discovery(name, result, resp) ==
    /\ pc = "idle"
    /\ op' = name
    /\ describe_resp' = resp
    /\ ret' = IF result.t = "raise" THEN ret ELSE result
    /\ raised' = IF result.t = "raise" THEN result.e ELSE raised
    /\ pc' = IF result.t = "raise" THEN "failed" ELSE "done"
    /\ UNCHANGED <<runtime_properties, params_name, iface_class, writes,
                   warnings, node_type, labels, delete_call_name,
                   deleted_wait_name, waitvars, kubevars, active_wait_name>>
    /\ Frame

call_describe ==
    \E resp \in DescribeResponses(cluster) :
        discovery("describe", describe(resp), resp)

call_properties ==
    \E resp \in DescribeResponses(cluster) :
        discovery("properties", properties(resp), resp)

call_status ==
    \E resp \in DescribeResponses(cluster) :
        discovery("status", status(resp), resp)

call_list ==
    \E resp \in ListResponses : discovery("list", list(resp), resp)

\* the operation has ended; the next one starts afresh
finish ==
    /\ pc \in {"done", "failed"}
    /\ op' = "none"
    /\ pc' = "idle"
    /\ raised' = None
    /\ params_name' = None
    /\ iface_class' = "none"
    /\ writes' = {}
    /\ warnings' = {}
    /\ node_type' = None
    /\ labels' = EmptyDict
    /\ w' = NoWaiter
    /\ handlers' = {}
    /\ req' = NoRequest
    /\ describe_resp' = NoResponse
    /\ url' = <<>>
    /\ kubeconf' = NoDoc
    /\ ret' = Return(NoneValue)
    /\ delete_call_name' = None
    /\ deleted_wait_name' = None
    /\ UNCHANGED <<runtime_properties, active_wait_name>>
    /\ Frame

Next ==
    \/ prepare
    \/ poststart_begin
    \/ waiter_poll
    \/ waiter_sleep
    \/ wait_timeout
    \/ poststart_waited
    \/ get_kubeconf_describe
    \/ get_kubeconf_presign
    \/ get_kubeconf_sign
    \/ get_kubeconf_build
    \/ store_kubeconfig
    \/ poststart_enrich
    \/ poststart_labels
    \/ poststart_site
    \/ poststart_resource
    \/ delete_begin
    \/ delete_call_returns
    \/ delete_waited
    \/ refresh_kubeconfig
    \/ call_describe
    \/ call_properties
    \/ call_status
    \/ call_list
    \/ finish

Spec == Init /\ [][Next]_vars

TokenRoundTrip ==
    t_pc = "token" =>
        /\ has_prefix(t_token)
        /\ strip_prefix(t_token) = rstrip_eq(utf8_decode(t_encoded))
        /\ \A i \in 1..Len(t_token) : t_token[i] # EQ
        /\ decode_token(t_token) = t_url

\* C2 witness: a token was issued for a URL that holds '=' and whose
\* encoding ended in padding
TokenRoundTripWitness ==
    /\ t_pc = "token"
    /\ \E i \in 1..Len(t_url) : t_url[i] = EQ
    /\ Len(t_encoded) > 0
    /\ t_encoded[Len(t_encoded)] = EQ

\* C3: the cluster name is taken out of the parameters before the request
\* is serialized and put into the header x-k8s-aws-id before the request is
\* signed; what is signed has the header and not the parameter, and no
\* header is added afterwards.
HeaderInjectedBeforeSigning ==
    /\ req.stage = "serialized" =>
          /\ "ClusterName" \notin DOMAIN req.params
          /\ "eks_cluster" \in DOMAIN req.context
          /\ req.context["eks_cluster"] = params_name
          /\ req.headers = EmptyDict
    /\ req.stage = "signed" =>
          /\ "ClusterName" \notin DOMAIN req.signed_params
          /\ CLUSTER_NAME_HEADER \in DOMAIN req.signed_headers
          /\ req.signed_headers[CLUSTER_NAME_HEADER] = params_name
          /\ req.headers = req.signed_headers

\* C3 witness: a request for the cluster 'demo' has been signed
HeaderInjectedWitness ==
    /\ req.stage = "signed"
    /\ params_name = "demo"
    /\ req.signed_headers[CLUSTER_NAME_HEADER] = "demo"

kubeconf_shape(doc, resp) ==
    /\ Len(doc.clusters) = 1
    /\ Len(doc.contexts) = 1
    /\ Len(doc.users) = 1
    /\ doc.current_context = "aws"
    /\ doc.clusters[1].cluster.server = resp.cluster.endpoint
    /\ doc.clusters[1].cluster.certificate_authority_data
          = resp.cluster.certificateAuthority.data
    /\ doc.contexts[1].context.cluster = doc.clusters[1].name
    /\ doc.contexts[1].context.user = doc.users[1].name

\* C5: the document has one cluster, one context and one user, the current
\* context 'aws', the described endpoint as server, the described CA data
\* unchanged, and a context that names that cluster and that user.
KubeConfigShape ==
    /\ kubeconf # NoDoc => kubeconf_shape(kubeconf, describe_resp)
    /\ runtime_properties.kubeconf # NoDoc =>
          kubeconf_shape(runtime_properties.kubeconf,
                         [cluster |-> descriptor(cluster, "ACTIVE")])

\* C5 witness: a document for the cluster at https://B with CA data 'YmFy'
KubeConfigShapeWitness ==
    /\ kubeconf # NoDoc
    /\ kubeconf.clusters[1].cluster.server
          = Str(<<104, 116, 116, 112, 115, 58, 47, 47, 66>>)
    /\ kubeconf.clusters[1].cluster.certificate_authority_data
          = Str(<<89, 109, 70, 121>>)
    /\ runtime_properties.kubeconf = kubeconf

\* C6: the signed request is valid for 60 minutes, that is ExpiresIn, which
\* counts seconds, is 3600.
ExpiresInSixtyMinutes ==
    req.stage = "signed" => req.ExpiresIn = 60 * 60

\* C7: in poststart a Cloudify client error of the label assignment or of
\* the site assignment is swallowed; poststart never ends with it.
CompatibilityErrorsSwallowed ==
    op = "poststart" => raised # "CloudifyClientError"

PoststartAfterActive ==
    op = "poststart" =>
        /\ (\/ pc \notin {"wait", "failed"}
            \/ writes # {}
            \/ req.stage # "none"
            \/ kubeconf # NoDoc)
              => w.state = "returned" /\ w.waiter = "cluster_active"
        /\ (w.state = "timeout" \/ raised = "WaiterError") =>
              /\ writes = {}
              /\ req.stage = "none"
              /\ pc \in {"wait", "failed"}
        /\ raised = "WaiterError" => pc = "failed"
        /\ "kubeconf" \in writes => store_kube_config_in_runtime

\* C9 witness: poststart has ended after it wrote all four
PoststartAfterActiveWitness ==
    /\ op = "poststart"
    /\ pc = "done"
    /\ writes = {"kubeconf", "labels", "site", "resource"}

\* C10: delete calls delete_cluster and waits for 'cluster_deleted' on the
\* name poststart waited on, and the wait starts after the call returned.
DeleteSameName ==
    (op = "delete" /\ active_wait_name # Unset) =>
        /\ delete_call_name = active_wait_name
        /\ w.waiter = "cluster_deleted" =>
              /\ pc # "delete_call"
              /\ deleted_wait_name = active_wait_name
              /\ w.name = active_wait_name
====
